---- MODULE Spec2Model ----
(***************************************************************************)
(* A model of the Get Log Insights pipeline: the two Apache log handlers   *)
(* (log_handlers.py), the n-gram TF-IDF scorer and the orchestration in    *)
(* main/analyze_log_files (get_log_insights.py).                           *)
(*                                                                         *)
(* Text is modelled as a sequence of one-character strings, so that        *)
(* str.split, str.replace, ' '.join, readlines and the \S+ tokenizer are   *)
(* computed character by character.                                        *)
(***************************************************************************)
EXTENDS Integers, Sequences, FiniteSets, TLC

VARIABLES
    pc,              \* position of the run
    options,         \* the parsed command line: input_dir, log_type, num_grams
    log_handler,     \* "error" | "access" | "none": the handler main constructed
    n,               \* int(options.num_grams), -1 before the conversion
    paths,           \* number of matched files, in modification-time order 1..paths
    opened,          \* sequence of the path indices opened so far
    cur_file,        \* content of the file opened last
    returned,        \* sequence of the record lists parse_log_file returned
    log_record_list, \* analyze_log_files' flat record collection
    scorer_calls,    \* number of calls of get_top_ngrams
    scorer_input,    \* the record list handed to get_top_ngrams
    common_words,    \* the ranked result list
    rows_printed,    \* number of ranked-result rows printed
    failure,         \* kind of the exception that ended the run, "none" if none
    exitcode         \* process exit status, -1 while running

vars == <<pc, options, log_handler, n, paths, opened, cur_file, returned,
          log_record_list, scorer_calls, scorer_input, common_words,
          rows_printed, failure, exitcode>>

-----------------------------------------------------------------------------
(* Bounds of the model *)

MaxPieces == 5
MaxFiles == 2
MaxLines == 2
MaxDocs == 3
MaxN == 2

-----------------------------------------------------------------------------
(* Python string primitives, on sequences of characters *)

Min(a, b) == IF a <= b THEN a ELSE b

\* the sequence f as an explicit tuple, its elements evaluated once
Tuple(f) == f \o <<>>

RECURSIVE Concat(_)
Concat(ss) == IF ss = <<>> THEN <<>> ELSE Head(ss) \o Concat(Tail(ss))

RECURSIVE Join(_, _)
Join(parts, sep) ==
    IF parts = <<>> THEN <<>>
    ELSE IF Len(parts) = 1 THEN parts[1]
    ELSE parts[1] \o sep \o Join(Tail(parts), sep)

MatchAt(s, i, d) == i + Len(d) - 1 <= Len(s) /\ SubSeq(s, i, i + Len(d) - 1) = d

\* str.split(sep): every non-overlapping occurrence, scanning left to right
RECURSIVE SplitFrom(_, _, _, _)
SplitFrom(s, d, i, start) ==
    IF i + Len(d) - 1 > Len(s) THEN << SubSeq(s, start, Len(s)) >>
    ELSE IF MatchAt(s, i, d)
         THEN << SubSeq(s, start, i - 1) >> \o SplitFrom(s, d, i + Len(d), i + Len(d))
         ELSE SplitFrom(s, d, i + 1, start)

Split(s, d) == SplitFrom(s, d, 1, 1)

\* str.replace(ch, ''): every occurrence of the character removed
Remove(s, ch) == SelectSeq(s, LAMBDA c : c # ch)

\* file.readlines(): lines keep their terminating "\n"
RECURSIVE ReadLinesFrom(_, _, _)
ReadLinesFrom(s, i, start) ==
    IF i > Len(s) THEN (IF start > Len(s) THEN <<>> ELSE << SubSeq(s, start, Len(s)) >>)
    ELSE IF s[i] = "\n"
         THEN << SubSeq(s, start, i) >> \o ReadLinesFrom(s, i + 1, i + 1)
         ELSE ReadLinesFrom(s, i + 1, start)

ReadLines(s) == ReadLinesFrom(s, 1, 1)

-----------------------------------------------------------------------------
(* log_handlers.py *)

ErrDelim == << "]", " " >>
AccDelimClient == << " ", "-", " ", "-", " ", "[" >>
AccDelimRequest == << "]", " ", "\"" >>

\* the error handler's loop body with the test len(tmp_str_arr) >= 2
ErrorLine_AtLeastTwo(line) ==
    LET tmp_str_arr == Split(line, ErrDelim)
    IN  IF Len(tmp_str_arr) >= 2
        THEN << Join(SubSeq(tmp_str_arr, 3, Len(tmp_str_arr)), << " " >>) >>
        ELSE <<>>

\* one iteration of the error handler's loop: the records the line adds
ErrorLine(line) ==
    LET tmp_str_arr == Split(line, ErrDelim)
    IN  IF Len(tmp_str_arr) > 2
        THEN << Join(SubSeq(tmp_str_arr, 3, Len(tmp_str_arr)), << " " >>) >>
        ELSE <<>>

RECURSIVE ErrorLines(_)
ErrorLines(lines) ==
    IF lines = <<>> THEN <<>> ELSE ErrorLine(Head(lines)) \o ErrorLines(Tail(lines))

\* a file is [readable |-> BOOLEAN, data |-> text]; open() raises on an unreadable one
ApacheErrorLogHandler_parse_log_file(file) ==
    IF ~file.readable THEN [err |-> "OSError", records |-> <<>>]
    ELSE [err |-> "none", records |-> ErrorLines(ReadLines(file.data))]

\* the access handler's loop body skipping a line it cannot split, as the
\* error handler does
AccessLine_Skipping(line) ==
    LET tmp_str_arr == Split(line, AccDelimClient)
    IN  IF Len(tmp_str_arr) < 2 THEN [err |-> "none", records |-> <<>>]
        ELSE LET client_ip == tmp_str_arr[1]
                 rest_of_rec_arr == Split(tmp_str_arr[2], AccDelimRequest)
             IN  IF Len(rest_of_rec_arr) < 2 THEN [err |-> "none", records |-> <<>>]
                 ELSE [err |-> "none",
                       records |-> << client_ip \o << " " >>
                                      \o Remove(Remove(rest_of_rec_arr[2], "\""), "-") >>]

\* one iteration of the access handler's loop; indexing [1] raises IndexError
AccessLine(line) ==
    LET tmp_str_arr == Split(line, AccDelimClient)
    IN  IF Len(tmp_str_arr) < 2 THEN [err |-> "IndexError", records |-> <<>>]
        ELSE LET client_ip == tmp_str_arr[1]
                 rest_of_rec_arr == Split(tmp_str_arr[2], AccDelimRequest)
             IN  IF Len(rest_of_rec_arr) < 2 THEN [err |-> "IndexError", records |-> <<>>]
                 ELSE [err |-> "none",
                       records |-> << client_ip \o << " " >>
                                      \o Remove(Remove(rest_of_rec_arr[2], "\""), "-") >>]

RECURSIVE AccessLines(_)
AccessLines(lines) ==
    IF lines = <<>> THEN [err |-> "none", records |-> <<>>]
    ELSE LET first == AccessLine(Head(lines))
         IN  IF first.err # "none" THEN first
             ELSE LET rest == AccessLines(Tail(lines))
                  IN  IF rest.err # "none" THEN rest
                      ELSE [err |-> "none", records |-> first.records \o rest.records]

ApacheAccessLogHandler_parse_log_file(file) ==
    IF ~file.readable THEN [err |-> "OSError", records |-> <<>>]
    ELSE AccessLines(ReadLines(file.data))

parse_log_file(handler, file) ==
    IF handler = "error" THEN ApacheErrorLogHandler_parse_log_file(file)
    ELSE ApacheAccessLogHandler_parse_log_file(file)

-----------------------------------------------------------------------------
(* get_log_insights.py: get_top_ngrams, with the TfidfVectorizer it configures *)
(* (ngram_range=(n, n), lowercase=False, token_pattern=\S+, smooth_idf=False,  *)
(* and the vectorizer's defaults use_idf=True, sublinear_tf=False, norm='l2'). *)
(* Weights are fixed-point numbers with three decimals.                        *)

TopK == 10
Scale == 10 ^ 3

\* 1000 * ln(k) for k = 1..16, rounded
Ln1000 == << 0, 693, 1099, 1386, 1609, 1792, 1946, 2079,
             2197, 2303, 2398, 2485, 2565, 2639, 2708, 2773 >>

RECURSIVE IsqrtIn(_, _, _)
IsqrtIn(x, lo, hi) ==
    IF lo >= hi THEN lo
    ELSE LET mid == (lo + hi + 1) \div 2
         IN  IF mid * mid <= x THEN IsqrtIn(x, mid, hi) ELSE IsqrtIn(x, lo, mid - 1)

Isqrt(x) == IsqrtIn(x, 0, 46340)

IsSpace(c) == c \in {" ", "\n", "\t"}

\* re.findall(r'\S+', doc): the maximal runs of non-whitespace characters
RECURSIVE TokenizeFrom(_, _, _)
TokenizeFrom(s, i, start) ==
    IF i > Len(s) THEN (IF start < i THEN << SubSeq(s, start, Len(s)) >> ELSE <<>>)
    ELSE IF IsSpace(s[i])
         THEN (IF start < i THEN << SubSeq(s, start, i - 1) >> ELSE <<>>)
              \o TokenizeFrom(s, i + 1, i + 1)
         ELSE TokenizeFrom(s, i + 1, start)

Tokenize(s) == TokenizeFrom(s, 1, 1)

\* VectorizerMixin._word_ngrams for ngram_range (k, k): one gram per start
\* position, none when the document has fewer than k tokens
WordNgrams(tokens, k) ==
    IF k > Len(tokens) THEN <<>>
    ELSE Tuple([i \in 1..(Len(tokens) - k + 1) |->
                  Join([j \in 1..k |-> tokens[i + j - 1]], << " " >>)])

Analyze(doc, k) == WordNgrams(Tokenize(doc), k)

InSeq(x, s) == \E i \in 1..Len(s) : s[i] = x

Count(x, s) == Cardinality({i \in 1..Len(s) : s[i] = x})

\* vocabulary_ : a dict, iterated in insertion order, a gram being inserted
\* when it is first met (documents in order, grams in order of position)
RECURSIVE Distinct(_, _)
Distinct(s, seen) ==
    IF s = <<>> THEN seen
    ELSE Distinct(Tail(s), IF InSeq(Head(s), seen) THEN seen ELSE Append(seen, Head(s)))

Vocabulary(docgrams) == Distinct(Concat(docgrams), <<>>)

DocFreq(g, docgrams) == Cardinality({d \in 1..Len(docgrams) : InSeq(g, docgrams[d])})

\* smooth_idf=False: idf = ln(D / df) + 1
Idf(g, docgrams) == Ln1000[Len(docgrams)] - Ln1000[DocFreq(g, docgrams)] + Scale

\* one row of the term-count matrix times idf: tf * idf for every gram of the vocabulary
TfIdfRow(grams, voc, idf) == Tuple([i \in 1..Len(voc) |-> Count(voc[i], grams) * idf[i]])

RECURSIVE SumSquares(_)
SumSquares(row) == IF row = <<>> THEN 0 ELSE Head(row) * Head(row) + SumSquares(Tail(row))

\* the vectorizer built with norm=None: rows are not rescaled
Normalize_None(row) == row

\* norm='l2' (the vectorizer's default): each row is divided by its Euclidean
\* length; a zero row is left alone
Normalize(row) ==
    LET norm == Isqrt(SumSquares(row))
    IN  IF norm = 0 THEN row ELSE Tuple([i \in 1..Len(row) |-> (row[i] * Scale) \div norm])

\* fit_transform: the document-term matrix
BagOfWords(docgrams, voc) ==
    LET idf == Tuple([i \in 1..Len(voc) |-> Idf(voc[i], docgrams)])
    IN  Tuple([d \in 1..Len(docgrams) |-> Normalize(TfIdfRow(docgrams[d], voc, idf))])

\* bag_of_words.sum(axis=0)
RECURSIVE SumColumn(_, _)
SumColumn(bag_of_words, i) ==
    IF bag_of_words = <<>> THEN 0
    ELSE Head(bag_of_words)[i] + SumColumn(Tail(bag_of_words), i)

\* sorted(words_freq, key=lambda x: x[1], reverse=True): stable, descending
RECURSIVE InsertDesc(_, _)
InsertDesc(sorted, e) ==
    IF sorted = <<>> THEN << e >>
    ELSE IF Head(sorted).weight >= e.weight
         THEN << Head(sorted) >> \o InsertDesc(Tail(sorted), e)
         ELSE << e >> \o sorted

RECURSIVE SortDesc(_, _)
SortDesc(s, acc) == IF s = <<>> THEN acc ELSE SortDesc(Tail(s), InsertDesc(acc, Head(s)))

\* an ascending sort that is then reversed: descending, but equal weights
\* end up in reverse vocabulary order
RECURSIVE InsertAsc(_, _)
InsertAsc(sorted, e) ==
    IF sorted = <<>> THEN << e >>
    ELSE IF Head(sorted).weight <= e.weight
         THEN << Head(sorted) >> \o InsertAsc(Tail(sorted), e)
         ELSE << e >> \o sorted

RECURSIVE SortAsc(_, _)
SortAsc(s, acc) == IF s = <<>> THEN acc ELSE SortAsc(Tail(s), InsertAsc(acc, Head(s)))

Sorted_ThenReversed(words_freq) ==
    LET asc == SortAsc(words_freq, <<>>)
    IN  Tuple([i \in 1..Len(asc) |-> asc[Len(asc) + 1 - i]])

Sorted(words_freq) == SortDesc(words_freq, <<>>)

\* fit_transform raises ValueError("empty vocabulary; ...") when no gram is found
get_top_ngrams(record_list, k) ==
    LET docgrams == Tuple([d \in 1..Len(record_list) |-> Analyze(record_list[d], k)])
        voc == Vocabulary(docgrams)
    IN  IF voc = <<>> THEN [err |-> "ValueError", result |-> <<>>]
        ELSE LET bag_of_words == BagOfWords(docgrams, voc)
                 words_freq == Tuple([i \in 1..Len(voc) |->
                                   [word |-> voc[i], weight |-> SumColumn(bag_of_words, i)]])
                 ranked == Sorted(words_freq)
             IN  [err |-> "none", result |-> SubSeq(ranked, 1, Min(TopK, Len(ranked)))]

-----------------------------------------------------------------------------
(* Input domains *)

SeqsUpTo(S, k) == UNION {[1..m -> S] : m \in 0..k}

NoFile == [readable |-> TRUE, data |-> <<>>]
Unreadable == [readable |-> FALSE, data |-> <<>>]
NoOptions == [input_dir |-> "", log_type |-> "", num_grams |-> 0]

\* the pieces file texts are assembled from, for each handler
ErrPieces == { << "a" >>, << "b" >>, << "]" >>, ErrDelim, << "\n" >> }
AccPieces == { << "x" >>, AccDelimClient, AccDelimRequest, << "-" >>, << "\"" >>, << "\n" >> }

HandlerFiles(handler) ==
    { [readable |-> TRUE, data |-> Concat(ps)] :
        ps \in SeqsUpTo(IF handler = "error" THEN ErrPieces ELSE AccPieces, MaxPieces) }
    \cup { Unreadable }

-----------------------------------------------------------------------------
(* SpecHandlers: parse_log_file of either handler applied to one file *)

InitHandlers ==
    /\ pc = "h_call"
    /\ log_handler \in {"error", "access"}
    /\ cur_file \in HandlerFiles(log_handler)
    /\ options = NoOptions /\ n = -1 /\ paths = 0 /\ opened = <<>>
    /\ returned = <<>> /\ log_record_list = <<>>
    /\ scorer_calls = 0 /\ scorer_input = <<>> /\ common_words = <<>>
    /\ rows_printed = 0 /\ failure = "none" /\ exitcode = -1

ParseErrorFile ==
    /\ pc = "h_call" /\ log_handler = "error"
    /\ LET res == ApacheErrorLogHandler_parse_log_file(cur_file)
       IN  /\ returned' = << res.records >>
           /\ failure' = res.err
    /\ pc' = "h_done"
    /\ UNCHANGED <<options, log_handler, n, paths, opened, cur_file, log_record_list,
                   scorer_calls, scorer_input, common_words, rows_printed, exitcode>>

ParseAccessFile ==
    /\ pc = "h_call" /\ log_handler = "access"
    /\ LET res == ApacheAccessLogHandler_parse_log_file(cur_file)
       IN  /\ returned' = << res.records >>
           /\ failure' = res.err
    /\ pc' = "h_done"
    /\ UNCHANGED <<options, log_handler, n, paths, opened, cur_file, log_record_list,
                   scorer_calls, scorer_input, common_words, rows_printed, exitcode>>

NextHandlers == ParseErrorFile \/ ParseAccessFile

SpecHandlers == InitHandlers /\ [][NextHandlers]_vars

-----------------------------------------------------------------------------
(* SpecScorer: get_top_ngrams applied to a record list and a gram size n >= 1 *)

Doc(chars) == Join([i \in 1..Len(chars) |-> << chars[i] >>], << " " >>)

LongDoc == Doc(<< "a", "b", "c", "d", "e", "f", "g", "h", "i", "j", "k", "l" >>)
SpacedDoc == << " ", "b", "\t", " ", "c", " ", "b", "\n" >>

\* the records the scorer is tried on: empty, one token, repeated and shared
\* tokens, irregular whitespace, and one record with more than TopK grams
DocPool ==
    { <<>>, Doc(<< "a" >>), Doc(<< "c" >>), Doc(<< "a", "a" >>), Doc(<< "a", "b" >>),
      Doc(<< "a", "c" >>), Doc(<< "b", "a" >>), Doc(<< "b", "b", "a" >>), LongDoc, SpacedDoc }

InitScorer ==
    /\ pc = "s_call"
    /\ log_record_list \in SeqsUpTo(DocPool, MaxDocs)
    /\ n \in 1..MaxN
    /\ options = NoOptions /\ log_handler = "none" /\ paths = 0 /\ opened = <<>>
    /\ cur_file = NoFile /\ returned = <<>>
    /\ scorer_calls = 0 /\ scorer_input = <<>> /\ common_words = <<>>
    /\ rows_printed = 0 /\ failure = "none" /\ exitcode = -1

CallScorer ==
    /\ pc = "s_call"
    /\ LET res == get_top_ngrams(log_record_list, n)
       IN  /\ common_words' = res.result
           /\ failure' = res.err
    /\ scorer_calls' = scorer_calls + 1
    /\ scorer_input' = log_record_list
    /\ pc' = "s_done"
    /\ UNCHANGED <<options, log_handler, n, paths, opened, cur_file, returned,
                   log_record_list, rows_printed, exitcode>>

NextScorer == CallScorer

SpecScorer == InitScorer /\ [][NextScorer]_vars

-----------------------------------------------------------------------------
(* Spec: one run of main() *)

SUPPORTED_LOG_TYPES == {"apache-error", "apache-access"}

\* -n takes a string; int() accepts it only when it is numeric. The default is the int 5.
NumGramsValues ==
    { [numeric |-> FALSE, value |-> 0] } \cup { [numeric |-> TRUE, value |-> k] : k \in 0..MaxN }

OptionsValues ==
    [input_dir : {"", "logs", "missing"},
     log_type : {"", "apache-error", "apache-access", "nginx"},
     num_grams : NumGramsValues]

\* os.path.exists(input_dir): of the directories named above only "logs" exists
PathExists(dir) == dir = "logs"

\* two error-log lines (records "a b\n" and "c\n"), an access-log line
\* (record "h \n") and a blank line, which neither format can parse
ErrLine1 == << "[", "t", "]", " ", "[", "e", "]", " ", "a", " ", "b", "\n" >>
ErrLine2 == << "[", "t", "]", " ", "[", "e", "]", " ", "c", "\n" >>
AccLine1 == << "h", " ", "-", " ", "-", " ", "[", "t", "]", " ", "\"", "-", "\"", "\n" >>
BlankLine == << "\n" >>

LinePool == { ErrLine1, ErrLine2, AccLine1, BlankLine }

\* what a matched file may hold when it is opened
FilePool ==
    { [readable |-> TRUE, data |-> Concat(ls)] : ls \in SeqsUpTo(LinePool, MaxLines) }
    \cup { Unreadable }

\* parse_log_file of each handler, tabulated over the files of the pool
ParsedPool == [h \in {"error", "access"} |-> [f \in FilePool |-> parse_log_file(h, f)]]

Init ==
    /\ pc = "main"
    /\ options \in OptionsValues
    /\ log_handler = "none" /\ n = -1 /\ paths = 0 /\ opened = <<>>
    /\ cur_file = NoFile /\ returned = <<>> /\ log_record_list = <<>>
    /\ scorer_calls = 0 /\ scorer_input = <<>> /\ common_words = <<>>
    /\ rows_printed = 0 /\ failure = "none" /\ exitcode = -1

\* the exception is reported but the exit status is not passed to sys.exit
Exit_StatusDropped(kind, code) == pc' = "exit" /\ failure' = kind /\ exitcode' = 0

\* sys.exit(code) after an exception of the given kind
Exit(kind, code) == pc' = "exit" /\ failure' = kind /\ exitcode' = code

validate_input ==
    /\ pc = "main"
    /\ IF options.input_dir = "" \/ options.log_type \notin SUPPORTED_LOG_TYPES
       THEN Exit("GetLogInsightsException", 1)
       ELSE pc' = "validated" /\ UNCHANGED <<failure, exitcode>>
    /\ UNCHANGED <<options, log_handler, n, paths, opened, cur_file, returned,
                   log_record_list, scorer_calls, scorer_input, common_words, rows_printed>>

\* main, lines 136-141: the handler is constructed, then int(options.num_grams)
select_handler ==
    /\ pc = "validated"
    /\ log_handler' = IF options.log_type = "apache-error" THEN "error" ELSE "access"
    /\ IF options.num_grams.numeric
       THEN n' = options.num_grams.value /\ pc' = "analyze" /\ UNCHANGED <<failure, exitcode>>
       ELSE Exit("ValueError", 1) /\ UNCHANGED n
    /\ UNCHANGED <<options, paths, opened, cur_file, returned, log_record_list,
                   scorer_calls, scorer_input, common_words, rows_printed>>

\* analyze_log_files, lines 71-76; the matched files are numbered in the order
\* get_matching_log_files returns them (sorted by modification time)
get_matching_log_files ==
    /\ pc = "analyze"
    /\ IF ~PathExists(options.input_dir)
       THEN Exit("GetLogInsightsException", 1) /\ UNCHANGED paths
       ELSE /\ \E k \in 0..MaxFiles : paths' = k
            /\ pc' = "parse" /\ UNCHANGED <<failure, exitcode>>
    /\ UNCHANGED <<options, log_handler, n, opened, cur_file, returned, log_record_list,
                   scorer_calls, scorer_input, common_words, rows_printed>>

\* the file's records put in front of the collection instead of at its end
extend_records_AtFront(res) ==
    /\ returned' = Append(returned, res.records)
    /\ log_record_list' = res.records \o log_record_list

\* one iteration of the loop of lines 79-80
extend_records(res) ==
    /\ returned' = Append(returned, res.records)
    /\ log_record_list' = log_record_list \o res.records

parse_next_file ==
    /\ pc = "parse" /\ Len(opened) < paths
    /\ \E file \in FilePool :
         LET res == ParsedPool[log_handler][file]
         IN  /\ opened' = Append(opened, Len(opened) + 1)
             /\ cur_file' = file
             /\ IF res.err # "none"
                THEN Exit(res.err, 1) /\ UNCHANGED <<returned, log_record_list>>
                ELSE extend_records(res) /\ UNCHANGED <<pc, failure, exitcode>>
    /\ UNCHANGED <<options, log_handler, n, paths, scorer_calls, scorer_input,
                   common_words, rows_printed>>

\* lines 82-87: the scorer is called when the loop is over
score ==
    /\ pc = "parse" /\ Len(opened) = paths
    /\ scorer_calls' = scorer_calls + 1
    /\ scorer_input' = log_record_list
    /\ LET res == get_top_ngrams(log_record_list, n)
       IN  IF res.err # "none"
           THEN Exit(res.err, 1) /\ UNCHANGED common_words
           ELSE common_words' = res.result /\ pc' = "print" /\ UNCHANGED <<failure, exitcode>>
    /\ UNCHANGED <<options, log_handler, n, paths, opened, cur_file, returned,
                   log_record_list, rows_printed>>

\* lines 88-89
print_row ==
    /\ pc = "print" /\ rows_printed < Len(common_words)
    /\ rows_printed' = rows_printed + 1
    /\ UNCHANGED <<pc, options, log_handler, n, paths, opened, cur_file, returned,
                   log_record_list, scorer_calls, scorer_input, common_words,
                   failure, exitcode>>

\* main returns: the interpreter exits with status 0
finish ==
    /\ pc = "print" /\ rows_printed = Len(common_words)
    /\ pc' = "exit" /\ exitcode' = 0
    /\ UNCHANGED <<options, log_handler, n, paths, opened, cur_file, returned,
                   log_record_list, scorer_calls, scorer_input, common_words,
                   rows_printed, failure>>

Next ==
    \/ validate_input
    \/ select_handler
    \/ get_matching_log_files
    \/ parse_next_file
    \/ score
    \/ print_row
    \/ finish

Spec == Init /\ [][Next]_vars

-----------------------------------------------------------------------------
(* Properties of the handlers, checked under SpecHandlers *)

\* the positions at which the delimiter d starts in s (neither '] ', ' - - ['
\* nor '] "' can overlap itself, so these are the places str.split cuts at)
Occurrences(s, d) == {i \in 1..Len(s) : MatchAt(s, i, d)}

Contains(s, d) == Occurrences(s, d) # {}

FirstOf(S) == CHOOSE i \in S : \A j \in S : i <= j

\* the characters of s at the positions from..Len(s) that are not in drop
RECURSIVE KeepFrom(_, _, _)
KeepFrom(s, from, drop) ==
    IF from > Len(s) THEN <<>>
    ELSE (IF from \in drop THEN <<>> ELSE << s[from] >>) \o KeepFrom(s, from + 1, drop)

ParsedLines == ReadLines(cur_file.data)

\* the record C5 describes for a line with at least two '] ': the text after
\* the second '] ', in which every later '] ' has become ' '
ErrClaimedRecord(line) ==
    LET occ == Occurrences(line, ErrDelim)
        second == FirstOf(occ \ {FirstOf(occ)})
    IN  KeepFrom(line, second + Len(ErrDelim), occ)

ErrClaimedRecords(lines) ==
    LET parseable == SelectSeq(lines, LAMBDA l : Cardinality(Occurrences(l, ErrDelim)) >= 2)
    IN  [i \in 1..Len(parseable) |-> ErrClaimedRecord(parseable[i])]

\* C5: for every readable error-log file, parse_log_file raises nothing and
\* returns, in line order, one record for each line that '] ' splits into more
\* than 2 parts (parts[2:] joined by single spaces) and nothing for the others.
C5_ErrorRecords ==
    (pc = "h_done" /\ log_handler = "error" /\ cur_file.readable)
        => /\ failure = "none"
           /\ returned[1] = ErrClaimedRecords(ParsedLines)

\* C5 witness: a file whose first line is unparseable and whose later line has
\* three '] ', parsed into the record of the later line
C5_Witness ==
    /\ pc = "h_done" /\ log_handler = "error" /\ cur_file.readable
    /\ Len(ParsedLines) >= 2
    /\ Cardinality(Occurrences(ParsedLines[1], ErrDelim)) < 2
    /\ Cardinality(Occurrences(ParsedLines[2], ErrDelim)) >= 3
    /\ Len(returned[1]) = 1
    /\ Contains(returned[1][1], << " ", "a" >>)

\* the record C4 describes: the text before the first ' - - [', one space, and
\* everything after the first '] "' of the remainder without its '"' and '-'
AccClaimedRecord(line) ==
    LET i == FirstOf(Occurrences(line, AccDelimClient))
        remainder == SubSeq(line, i + Len(AccDelimClient), Len(line))
        j == FirstOf(Occurrences(remainder, AccDelimRequest))
        request == SubSeq(remainder, j + Len(AccDelimRequest), Len(remainder))
    IN  SubSeq(line, 1, i - 1) \o << " " >> \o Remove(Remove(request, "\""), "-")

\* a line with ' - - [' and, after its first occurrence, '] "'
AccShaped(line) ==
    /\ Contains(line, AccDelimClient)
    /\ LET i == FirstOf(Occurrences(line, AccDelimClient))
       IN  Contains(SubSeq(line, i + Len(AccDelimClient), Len(line)), AccDelimRequest)

\* C4 (as claimed): every access-log line holding both delimiters yields the
\* client field, a space and all the text after the first '] "', each delimiter
\* being split on once, also when a delimiter occurs more than once.
C4_SplitOnce ==
    (/\ pc = "h_done" /\ log_handler = "access" /\ cur_file.readable
     /\ \A i \in 1..Len(ParsedLines) : AccShaped(ParsedLines[i]))
        => /\ failure = "none"
           /\ returned[1] = [i \in 1..Len(ParsedLines) |-> AccClaimedRecord(ParsedLines[i])]

-----------------------------------------------------------------------------
(* Properties of the scorer, checked under SpecScorer *)

ScoredGrams == Tuple([d \in 1..Len(log_record_list) |-> Analyze(log_record_list[d], n)])

GramSetOf(grams) == UNION { {grams[d][i] : i \in 1..Len(grams[d])} : d \in 1..Len(grams) }

IndexOf(voc, g) == CHOOSE i \in 1..Len(voc) : voc[i] = g

RECURSIVE SumOver(_, _)
SumOver(f, d) == IF d = 0 THEN 0 ELSE f[d] + SumOver(f, d - 1)

\* tf * (ln(D / df) + 1) for every document d and every gram voc[i]
TfIdfTable(grams, voc) ==
    LET D == Len(grams)
        idf == Tuple([i \in 1..Len(voc) |->
                        Ln1000[D] - Ln1000[DocFreq(voc[i], grams)] + Scale])
    IN  Tuple([d \in 1..D |-> Tuple([i \in 1..Len(voc) |-> Count(voc[i], grams[d]) * idf[i]])])

\* the raw aggregates: the column sums of the table
RawWeights(grams, voc) ==
    LET t == TfIdfTable(grams, voc)
    IN  Tuple([i \in 1..Len(voc) |-> SumOver([d \in 1..Len(grams) |-> t[d][i]], Len(grams))])

\* the aggregates of the L2-normalised rows: every entry is divided by the
\* Euclidean length of its row before the columns are summed
NormalisedWeights(grams, voc) ==
    LET t == TfIdfTable(grams, voc)
        length == Tuple([d \in 1..Len(grams) |->
                           Isqrt(SumOver([i \in 1..Len(voc) |-> t[d][i] * t[d][i]], Len(voc)))])
    IN  Tuple([i \in 1..Len(voc) |->
                 SumOver([d \in 1..Len(grams) |->
                             IF t[d][i] = 0 THEN 0 ELSE (t[d][i] * Scale) \div length[d]],
                         Len(grams))])

Words(result) == [i \in 1..Len(result) |-> result[i].word]

ScenarioCorpus == << Doc(<< "a", "b" >>), Doc(<< "a", "c" >>), Doc(<< "a", "b" >>) >>

Returned == pc = "s_done" /\ failure = "none"

\* C1 (as claimed): every returned weight is the raw sum over the documents of
\* TF * (ln(D/df) + 1), without row normalisation; for ["a b", "a c", "a b"]
\* and n = 1 the weight of "a" is 3 and the order is a, b, c.
C1_RawSums ==
    Returned =>
        LET grams == ScoredGrams
            voc == Vocabulary(grams)
            W == RawWeights(grams, voc)
        IN  /\ \A i \in 1..Len(common_words) :
                   common_words[i].weight = W[IndexOf(voc, common_words[i].word)]
            /\ (log_record_list = ScenarioCorpus /\ n = 1)
                   => /\ Words(common_words) = << << "a" >>, << "b" >>, << "c" >> >>
                      /\ common_words[1].weight = 3 * Scale

\* C1 (amended): every returned weight is the sum over the documents of
\* TF * (ln(D/df) + 1) divided by the Euclidean length of the document's
\* TF-IDF row, so it is at most df; for ["a b", "a c", "a b"] and n = 1 the
\* order is b, a, c and the weight of "a" is about 1.59.
C1_NormalisedSums ==
    Returned =>
        LET grams == ScoredGrams
            voc == Vocabulary(grams)
            W == NormalisedWeights(grams, voc)
        IN  /\ \A i \in 1..Len(common_words) :
                   LET k == IndexOf(voc, common_words[i].word)
                   IN  /\ common_words[i].weight = W[k]
                       /\ common_words[i].weight <= DocFreq(voc[k], grams) * Scale
            /\ (log_record_list = ScenarioCorpus /\ n = 1)
                   => /\ Words(common_words) = << << "b" >>, << "a" >>, << "c" >> >>
                      /\ common_words[2].weight \in 1580..1600

\* C1 witness: the scenario corpus has been scored
C1_Witness ==
    /\ Returned /\ log_record_list = ScenarioCorpus /\ n = 1
    /\ Len(common_words) = 3
    /\ common_words[1].weight > common_words[2].weight

\* C3 (as claimed): for every non-empty record list the scorer returns a list
\* of exactly min(10, number of distinct n-grams) entries without repetition,
\* an empty list when there is no n-gram at all.
C3_ResultLength ==
    (pc = "s_done" /\ Len(log_record_list) >= 1)
        => /\ failure = "none"
           /\ Len(common_words) = Min(TopK, Cardinality(GramSetOf(ScoredGrams)))
           /\ \A i, j \in 1..Len(common_words) :
                  common_words[i].word = common_words[j].word => i = j

\* voc[i] precedes voc[j] in a stable descending sort by the weights W
RanksBefore(W, i, j) == W[i] > W[j] \/ (W[i] = W[j] /\ i < j)

\* C8: the result is the first min(10, vocabulary size) entries of the stable
\* descending sort of the vocabulary by aggregate weight: weights never
\* increase along the list, equal weights keep vocabulary order, and every
\* gram left out ranks after every gram returned.
C8_StableTopTen ==
    Returned =>
        LET grams == ScoredGrams
            voc == Vocabulary(grams)
            W == NormalisedWeights(grams, voc)
            pos == Tuple([i \in 1..Len(common_words) |-> IndexOf(voc, common_words[i].word)])
            taken == {pos[i] : i \in 1..Len(common_words)}
        IN  /\ Len(common_words) = Min(TopK, Cardinality(GramSetOf(grams)))
            /\ \A i \in 1..Len(common_words) :
                   /\ common_words[i].word \in GramSetOf(grams)
                   /\ common_words[i].weight = W[pos[i]]
            /\ \A i, j \in 1..Len(common_words) :
                   i < j => /\ common_words[i].weight >= common_words[j].weight
                            /\ RanksBefore(W, pos[i], pos[j])
            /\ \A k \in (1..Len(voc)) \ taken :
                   \A i \in 1..Len(common_words) : RanksBefore(W, pos[i], k)

\* C8 witness: more than ten grams, a strict descent and a tie inside the
\* result, and a gram left out that ties with the last one returned
C8_Witness ==
    /\ Returned
    /\ Len(common_words) = TopK
    /\ \E i \in 1..(TopK - 1) : common_words[i].weight > common_words[i + 1].weight
    /\ \E i \in 1..(TopK - 1) : common_words[i].weight = common_words[i + 1].weight
    /\ LET grams == ScoredGrams
           voc == Vocabulary(grams)
           W == NormalisedWeights(grams, voc)
       IN  /\ Len(voc) > TopK
           /\ \E k \in 1..Len(voc) :
                  /\ \A i \in 1..TopK : common_words[i].word # voc[k]
                  /\ W[k] = common_words[TopK].weight

-----------------------------------------------------------------------------
(* Properties of a run of main(), checked under Spec *)

Exited == pc = "exit"

\* the scorer was handed no record, or only records shorter than n tokens
NoGramPossible ==
    \/ scorer_input = <<>>
    \/ \A d \in 1..Len(scorer_input) : Len(Tokenize(scorer_input[d])) < n

\* C2 (as claimed): when the scorer is given no record, or only records with
\* fewer than n tokens, the run completes normally with an empty result list:
\* no error is raised and the exit status is not a failure status.
C2_EmptyIsNotAnError ==
    (Exited /\ scorer_calls = 1 /\ NoGramPossible)
        => failure = "none" /\ exitcode = 0 /\ common_words = <<>>

LacksDelimiter(line) ==
    ~Contains(line, AccDelimClient) \/ ~Contains(line, AccDelimRequest)

LastFileHasBadAccessLine ==
    /\ log_handler = "access" /\ opened # <<>> /\ cur_file.readable
    /\ \E i \in 1..Len(ParsedLines) : LacksDelimiter(ParsedLines[i])

\* C6: under the access-log format, once a file holding a line without
\* ' - - [' or without '] "' has been opened the run is over: the IndexError
\* has left parse_log_file, none of the file's records has been returned or
\* collected, no later file is opened, the scorer is never called, nothing is
\* printed and the exit status is 1.
C6_AccessParseFailureIsFatal ==
    LastFileHasBadAccessLine
        => /\ Exited /\ failure = "IndexError" /\ exitcode = 1
           /\ Len(returned) = Len(opened) - 1
           /\ log_record_list = Concat(returned)
           /\ scorer_calls = 0 /\ rows_printed = 0

\* C6 witness: the second file has a well-formed line followed by a blank
\* line, after a first file that was parsed into a record
C6_Witness ==
    /\ LastFileHasBadAccessLine
    /\ Len(opened) = 2 /\ Len(log_record_list) = 1
    /\ Len(ParsedLines) = 2
    /\ ~LacksDelimiter(ParsedLines[1]) /\ ParsedLines[2] = BlankLine
    /\ exitcode = 1

\* C7: a ranked-result row is printed only after every file has been read and
\* the scorer has returned; every run in which something failed ends with
\* exit status 1 and no row printed, and a run that ends with status 0 met no
\* failure.
C7_NoPartialResults ==
    /\ rows_printed > 0
           => /\ Len(opened) = paths /\ Len(returned) = paths
              /\ scorer_calls = 1 /\ failure = "none"
              /\ rows_printed <= Len(common_words)
    /\ failure # "none" => Exited /\ exitcode = 1 /\ rows_printed = 0
    /\ (Exited /\ exitcode = 0) => failure = "none" /\ rows_printed = Len(common_words)
    /\ Exited => exitcode \in {0, 1}

\* C7 witness: the scorer failed after a file had been read
C7_Witness ==
    /\ Exited /\ failure = "ValueError" /\ scorer_calls = 1
    /\ Len(opened) >= 1 /\ cur_file.readable /\ cur_file.data # <<>>
    /\ exitcode = 1 /\ rows_printed = 0

InvalidInput ==
    \/ options.input_dir = ""
    \/ options.log_type \notin SUPPORTED_LOG_TYPES
    \/ ~PathExists(options.input_dir)
    \/ ~options.num_grams.numeric
    \/ options.num_grams.value < 1

\* C9 (as claimed): an absent input directory option, an unsupported log
\* type, a missing input directory and a gram size that is not a positive
\* integer are all detected before any log file is opened (no file is opened
\* while such an input is still unreported), and each ends the run with a
\* non-zero exit status.
C9_ValidationUpFront ==
    InvalidInput => /\ failure = "none" => opened = <<>>
                    /\ Exited => exitcode # 0

HandlerFor(log_type) == IF log_type = "apache-error" THEN "error" ELSE "access"

\* C10: the files are opened once each in the order given, every one parsed by
\* the handler that log_type selects; the records are collected in file order
\* then line order; the scorer is called at most once, only after the last
\* file, on the whole collection, and exactly once in a successful run.
C10_OneScorerCallOnAllRecords ==
    /\ opened = [i \in 1..Len(opened) |-> i] /\ Len(opened) <= paths
    /\ log_handler # "none" => log_handler = HandlerFor(options.log_type)
    /\ log_record_list = Concat(returned)
    /\ (returned # <<>> /\ Len(returned) = Len(opened))
           => returned[Len(returned)]
                  = (IF options.log_type = "apache-error"
                     THEN ApacheErrorLogHandler_parse_log_file(cur_file)
                     ELSE ApacheAccessLogHandler_parse_log_file(cur_file)).records
    /\ scorer_calls <= 1
    /\ scorer_calls = 1
           => /\ Len(opened) = paths /\ Len(returned) = paths
              /\ scorer_input = log_record_list
    /\ (Exited /\ exitcode = 0) => scorer_calls = 1

\* C10 witness: a successful run over two files with different records, the
\* second file holding two records
C10_Witness ==
    /\ Exited /\ exitcode = 0 /\ paths = 2
    /\ Len(returned[1]) = 1 /\ Len(returned[2]) = 2
    /\ returned[2][1] # returned[1][1]
    /\ returned[2][1] # returned[2][2]
    /\ scorer_input = << returned[1][1], returned[2][1], returned[2][2] >>

====
